---- MODULE Spec2Model ----
(***************************************************************************)
(* Verification model of the PMOVES service-discovery and health layer:    *)
(*   pmoves_health    HealthChecker (registration, check_all), the healthz *)
(*                    endpoint, HTTPCheck.check                            *)
(*   pmoves_registry  ServiceInfo.base_url, _get_env_url,                  *)
(*                    get_service_info, check_service_health               *)
(*   pmoves_announcer ServiceAnnouncement (to_json, from_json),            *)
(*                    ServiceAnnouncer (__init__, announce,                *)
(*                    announce_with_retry), BackgroundAnnouncer            *)
(*                                                                         *)
(* Python strings that the code inspects character by character (check     *)
(* names, report keys, slugs, environment variable names, URLs, tiers) are *)
(* sequences of one-character strings.  Python values stored in the health *)
(* report (str and bool mixed in one dict) are encoded as TLA+ strings:    *)
(* True is "True", False is "False".  A value held in an announcement's    *)
(* metadata is a record of its type and its content.                       *)
(*                                                                         *)
(* Each component has its own specification (SpecHealth, SpecResolve,      *)
(* SpecRetry, SpecBg, SpecUrl, SpecAnnounce, SpecWire, SpecProbe); the     *)
(* variables of the other components keep their initial values.            *)
(***************************************************************************)
EXTENDS Integers, Sequences, FiniteSets, TLC

VARIABLES
  \* ---- pmoves_health.HealthChecker
  checks,          \* self.checks: sequence of [name, required]
  custom_checks,   \* self.custom_checks: the dict's keys in insertion order
  hpc,             \* check_all: "idle" | "running" | "done" (report returned)
  nextIdx,         \* position of the next probe check_all will start
  inflight,        \* positions of the probes started and not yet completed
  outcomes,        \* what each completed probe of this run did
  results,         \* the dict `results` of check_all (the report once done)
  all_healthy,     \* local all_healthy
  some_degraded,   \* local some_degraded
  http,            \* the response of the healthz endpoint that awaited the run
  \* ---- pmoves_registry.get_service_info
  environ,         \* os.environ: the variables that are set, name -> value
  rpc,             \* "idle" | "returned" (info is the returned ServiceInfo)
  rslug,           \* argument slug of the last call
  rport,           \* argument default_port of the last call
  info,            \* the ServiceInfo returned by the last call
  stages,          \* the stages of the chain that call went through, in order
  \* ---- pmoves_announcer.ServiceAnnouncer.announce_with_retry
  apc,             \* "idle" | "announcing" | "sleeping" | "done"
  max_retries,     \* argument max_retries
  delay,           \* argument delay
  attempt,         \* loop variable attempt
  nAttempts,       \* announce calls made by this call
  nFailures,       \* announce calls of this call that returned False
  waits,           \* the durations slept by this call, in order
  ret,             \* the returned value (once done)
  \* ---- pmoves_announcer.BackgroundAnnouncer
  running,         \* self._running
  task,            \* self._task: 0 (None) or the index of the task in tasks
  tasks,           \* the loop tasks created so far: [st, cancel]
  cpc,             \* per caller: "idle" | "start_announce" | "stop_wait"
  cwait,           \* per caller: the task its stop() awaits (0: none)
  stopped,         \* a stop() has returned and start() was not called since
  ev,              \* what the last step did
  sinceWait,       \* announcements published since start() left idle or the
                   \* loop's interval last elapsed
  \* ---- pmoves_registry.ServiceInfo.base_url
  upc,             \* "idle" | "made" | "once" | "twice"
  url,             \* health_check_url of the ServiceInfo
  base1,           \* its base_url
  base2,           \* base_url of a ServiceInfo whose health_check_url is base1
  \* ---- pmoves_announcer.ServiceAnnouncer.__init__ and announce
  announcer,       \* the ServiceAnnouncer's fields (NoAnnouncer: none exists)
  nargs,           \* the tier and health_check arguments of the last
                   \* ServiceAnnouncer(...) call
  npc,             \* "none" | "idle" | "connect" | "publish" | "flush" |
                   \* "close" | "returned" | "raised"
  announcement,    \* the ServiceAnnouncement created by this announce call
  nc,              \* the NATS connection: "none" | "open" | "closed"
  published,       \* the messages the server accepted during this call
  ndone,           \* the transport steps of this call that succeeded, in order
  nexc,            \* the exception raised inside the try block ("": none)
  nret,            \* the value returned by announce (once returned)
  \* ---- pmoves_announcer.ServiceAnnouncement.to_json / from_json
  wpc,             \* "idle" | "made" | "encoded" | "decoded" | "parsed"
  wa,              \* a ServiceAnnouncement
  wjson,           \* the result of wa.to_json()
  wback,           \* the result of ServiceAnnouncement.from_json on it
  \* ---- pmoves_health.HTTPCheck.check / pmoves_registry.check_service_health
  ppc,             \* "idle" | "get" | "returned" | "raised"
  pfun,            \* the operation called
  ptarget,         \* the URL of the GET
  pout,            \* what the GET did: status code, or the exception raised
  pexc,            \* the exception raised inside the operation ("": none)
  pret             \* the value returned (once returned)

hvars == <<checks, custom_checks, hpc, nextIdx, inflight, outcomes, results,
           all_healthy, some_degraded, http>>

rvars == <<environ, rpc, rslug, rport, info, stages>>

avars == <<apc, max_retries, delay, attempt, nAttempts, nFailures, waits, ret>>

bvars == <<running, task, tasks, cpc, cwait, stopped, ev, sinceWait>>

uvars == <<upc, url, base1, base2>>

nvars == <<announcer, nargs, npc, announcement, nc, published, ndone, nexc,
           nret>>

wvars == <<wpc, wa, wjson, wback>>

pvars == <<ppc, pfun, ptarget, pout, pexc, pret>>

vars == <<hvars, rvars, avars, bvars, uvars, nvars, wvars, pvars>>

\* the variables of the other components
nonH == <<rvars, avars, bvars, uvars, nvars, wvars, pvars>>
nonR == <<hvars, avars, bvars, uvars, nvars, wvars, pvars>>
nonA == <<hvars, rvars, bvars, uvars, nvars, wvars, pvars>>
nonB == <<hvars, rvars, avars, uvars, nvars, wvars, pvars>>
nonU == <<hvars, rvars, avars, bvars, nvars, wvars, pvars>>
nonN == <<hvars, rvars, avars, bvars, uvars, wvars, pvars>>
nonW == <<hvars, rvars, avars, bvars, uvars, nvars, pvars>>
nonP == <<hvars, rvars, avars, bvars, uvars, nvars, wvars>>

-----------------------------------------------------------------------------
(* Strings as character sequences *)

Str_status    == <<"s","t","a","t","u","s">>
Str_service   == <<"s","e","r","v","i","c","e">>
Str_timestamp == <<"t","i","m","e","s","t","a","m","p">>
Str_connected == <<"_","c","o","n","n","e","c","t","e","d">>
Str_MyDB      == <<"M","y"," ","D","B">>
Str_my_db     == <<"m","y","_","d","b">>
Str_nats      == <<"n","a","t","s">>
Str_mem_ok    == <<"m","e","m","_","o","k">>
Str__URL      == <<"_","U","R","L">>
Str_http      == <<"h","t","t","p",":","/","/">>
Str_from_env  == <<" ","(","f","r","o","m"," ","e","n","v",")">>
Str_fallback  == <<" ","(","f","a","l","l","b","a","c","k",")">>
Str_healthz   == <<"/","h","e","a","l","t","h","z">>
Str_health    == <<"/","h","e","a","l","t","h">>
Str_metrics   == <<"/","m","e","t","r","i","c","s">>
Str_ping      == <<"/","p","i","n","g">>

\* str.lower() on one character (the letters the model's names use)
LowerChar(c) ==
  CASE c = "M" -> "m"
    [] c = "D" -> "d"
    [] c = "B" -> "b"
    [] c = "A" -> "a"
    [] c = "U" -> "u"
    [] c = "R" -> "r"
    [] c = "L" -> "l"
    [] c = "P" -> "p"
    [] c = "I" -> "i"
    [] OTHER   -> c

\* str.upper() on one character
UpperChar(c) ==
  CASE c = "a" -> "A"
    [] c = "b" -> "B"
    [] c = "m" -> "M"
    [] c = "d" -> "D"
    [] OTHER   -> c

Lower(s) == [i \in 1..Len(s) |-> LowerChar(s[i])]
Upper(s) == [i \in 1..Len(s) |-> UpperChar(s[i])]

\* str.replace(a, b) for a single character a and a string b of length <= 1
RECURSIVE ReplaceChar(_, _, _)
ReplaceChar(s, a, b) ==
  IF s = <<>> THEN <<>>
  ELSE (IF Head(s) = a THEN b ELSE <<Head(s)>>) \o ReplaceChar(Tail(s), a, b)

-----------------------------------------------------------------------------
(* pmoves_health *)

\* bounds of the model
MaxChecks == 2
MaxCustom == 2

\* HealthStatus constants
HEALTHY   == "healthy"
DEGRADED  == "degraded"
UNHEALTHY == "unhealthy"

\* Python bool stored in the report
PyBool(b) == IF b THEN "True" ELSE "False"

\* self.service_name and the value of datetime.now(...).isoformat() of a run
ServiceName == "svc"
Timestamp   == "2026-01-01T00:00:00+00:00"

\* names given to built-in checks and to custom checks
CheckNames  == {Str_MyDB, Str_my_db, Str_nats}
CustomNames == {Str_status, Str_my_db \o Str_connected, Str_mem_ok}

\* what a probe can do: return a truthy value, a falsy value, or raise
Outcomes == {"true", "false", "raise"}

\* DependencyCheck.status_key
status_key(name) == ReplaceChar(Lower(name), " ", <<"_">>) \o Str_connected

\* d[k] = v on a Python dict
DictSet(d, k, v) == [x \in (DOMAIN d) \cup {k} |-> IF x = k THEN v ELSE d[x]]

EmptyDict == [x \in {} |-> ""]

Total == Len(checks) + Len(custom_checks)

IsBuiltin(p) == p <= Len(checks)

\* the key under which probe p is recorded
KeyOf(p) ==
  IF IsBuiltin(p) THEN status_key(checks[p].name)
  ELSE custom_checks[p - Len(checks)]

\* no response has been sent
NoResponse == [code |-> 0, body |-> EmptyDict]

\* no check_all call is in progress and no report is held: the locals of a
\* finished call are gone
NoReport ==
  /\ hpc' = "idle"
  /\ nextIdx' = 1
  /\ inflight' = {}
  /\ outcomes' = [p \in {} |-> ""]
  /\ results' = EmptyDict
  /\ all_healthy' = TRUE
  /\ some_degraded' = FALSE
  /\ http' = NoResponse

\* HealthChecker.add_check
add_check(name, required) ==
  /\ hpc # "running"
  /\ Len(checks) < MaxChecks
  /\ checks' = Append(checks, [name |-> name, required |-> required])
  /\ NoReport
  /\ UNCHANGED custom_checks
  /\ UNCHANGED nonH

\* HealthChecker.add_custom_check: a dict assignment, an existing key keeps
\* its place
add_custom_check(name) ==
  /\ hpc # "running"
  /\ Len(custom_checks) < MaxCustom
  /\ custom_checks' =
       IF \E i \in 1..Len(custom_checks) : custom_checks[i] = name
       THEN custom_checks
       ELSE Append(custom_checks, name)
  /\ NoReport
  /\ UNCHANGED checks
  /\ UNCHANGED nonH

\* check_all, lines 168-175: the initial report and the two flags
CheckAllBegin ==
  /\ hpc # "running"
  /\ hpc' = "running"
  /\ results' = DictSet(DictSet(DictSet(EmptyDict,
                   Str_status, HEALTHY),
                   Str_service, ServiceName),
                   Str_timestamp, Timestamp)
  /\ all_healthy' = TRUE
  /\ some_degraded' = FALSE
  /\ nextIdx' = 1
  /\ inflight' = {}
  /\ outcomes' = [p \in {} |-> ""]
  /\ http' = NoResponse
  /\ UNCHANGED <<checks, custom_checks>>
  /\ UNCHANGED nonH

\* the for loops await each probe before the next iteration
CanStartNext == inflight = {}

\* check_all reaches `await check.check()` / the call of check_fn
ProbeStart ==
  /\ hpc = "running"
  /\ nextIdx <= Total
  /\ CanStartNext
  /\ inflight' = inflight \cup {nextIdx}
  /\ nextIdx' = nextIdx + 1
  /\ UNCHANGED <<checks, custom_checks, hpc, outcomes, results, all_healthy,
                 some_degraded, http>>
  /\ UNCHANGED nonH

\* the probe returns or raises: lines 181-193 (built-in), 199-204 (custom)
ProbeFinish(p, o) ==
  /\ hpc = "running"
  /\ p \in inflight
  /\ inflight' = inflight \ {p}
  /\ outcomes' = [q \in (DOMAIN outcomes) \cup {p} |->
                    IF q = p THEN o ELSE outcomes[q]]
  /\ results' = DictSet(results, KeyOf(p), PyBool(o = "true"))
  /\ IF IsBuiltin(p)
     THEN /\ all_healthy' = (all_healthy /\ ~(o # "true" /\ checks[p].required))
          /\ some_degraded' =
               (some_degraded \/ (o # "true" /\ ~checks[p].required))
     ELSE /\ all_healthy' = (all_healthy /\ o = "true")
          /\ some_degraded' = some_degraded
  /\ UNCHANGED <<checks, custom_checks, hpc, nextIdx, http>>
  /\ UNCHANGED nonH

\* a status code that fails degraded services too
StatusCode_DegradedFails(report) ==
  IF report[Str_status] \in {UNHEALTHY, DEGRADED} THEN 503 ELSE 200

\* healthz, lines 289-291: 503 for status "unhealthy", else the default 200
StatusCode(report) ==
  IF report[Str_status] = UNHEALTHY THEN 503 ELSE 200

\* the report check_all is about to return
FinalReport ==
  IF ~all_healthy THEN DictSet(results, Str_status, UNHEALTHY)
  ELSE IF some_degraded THEN DictSet(results, Str_status, DEGRADED)
  ELSE results

\* a run that empties the mapping of custom checks when it returns
CheckAllReturn_ForgetsCustom ==
  /\ hpc = "running"
  /\ nextIdx > Total
  /\ inflight = {}
  /\ results' = FinalReport
  /\ http' = [code |-> StatusCode(FinalReport), body |-> FinalReport]
  /\ hpc' = "done"
  /\ custom_checks' = <<>>
  /\ UNCHANGED <<checks, nextIdx, inflight, outcomes,
                 all_healthy, some_degraded>>
  /\ UNCHANGED nonH

\* lines 206-212: overall status, return; the run was awaited by the healthz
\* endpoint (get_health_status), which answers with the report in the same
\* step, lines 286-291
CheckAllReturn ==
  /\ hpc = "running"
  /\ nextIdx > Total
  /\ inflight = {}
  /\ results' = FinalReport
  /\ http' = [code |-> StatusCode(FinalReport), body |-> FinalReport]
  /\ hpc' = "done"
  /\ UNCHANGED <<checks, custom_checks, nextIdx, inflight, outcomes,
                 all_healthy, some_degraded>>
  /\ UNCHANGED nonH

\* HealthChecker.__init__
HealthInit ==
  /\ checks = <<>>
  /\ custom_checks = <<>>
  /\ hpc = "idle"
  /\ nextIdx = 1
  /\ inflight = {}
  /\ outcomes = [p \in {} |-> ""]
  /\ results = EmptyDict
  /\ all_healthy = TRUE
  /\ some_degraded = FALSE
  /\ http = NoResponse

HealthNext ==
  \/ \E n \in CheckNames, r \in BOOLEAN : add_check(n, r)
  \/ \E n \in CustomNames : add_custom_check(n)
  \/ CheckAllBegin
  \/ ProbeStart
  \/ \E p \in inflight, o \in Outcomes : ProbeFinish(p, o)
  \/ CheckAllReturn

-----------------------------------------------------------------------------
(* pmoves_registry: environment override and get_service_info *)

\* slugs and default ports passed to get_service_info
Slugs == { <<"a","-","b">>, <<"a","b">>, <<"a","_","b">> }
Ports == {80, 8080}

\* names of environment variables the process may have set
EnvNames == { <<"A","_","B">> \o Str__URL,
              <<"A","B">> \o Str__URL,
              <<"A","-","B">> \o Str__URL }

\* values an environment variable may hold: empty, or a URL
EnvValues == { <<>>,
               Str_http \o <<"x",":","9">>,
               Str_http \o <<"y">> \o Str_healthz }

\* Optional[str]
None == [some |-> FALSE]
Some(v) == [some |-> TRUE, val |-> v]

\* truth value of an Optional[str]: None and "" are falsy
Truthy(opt) == opt.some /\ opt.val # <<>>

\* os.getenv(name)
os_getenv(name) ==
  IF name \in DOMAIN environ THEN Some(environ[name]) ELSE None

\* str(n) for n >= 0
DigitChars == <<"0","1","2","3","4","5","6","7","8","9">>

RECURSIVE IntToStr(_)
IntToStr(n) ==
  IF n < 10 THEN <<DigitChars[n + 1]>>
  ELSE IntToStr(n \div 10) \o <<DigitChars[(n % 10) + 1]>>

\* the candidate names in the order of the docstring of _get_env_url: the
\* name that keeps the dashes before the name without them
env_var_patterns_DocOrder(slug) ==
  << ReplaceChar(Upper(slug), "-", <<"_">>) \o Str__URL,
     Upper(slug) \o Str__URL,
     ReplaceChar(Upper(slug), "-", <<>>) \o Str__URL >>

\* _get_env_url: the list env_var_patterns
env_var_patterns(slug) ==
  << ReplaceChar(Upper(slug), "-", <<"_">>) \o Str__URL,
     ReplaceChar(Upper(slug), "-", <<>>) \o Str__URL,
     Upper(slug) \o Str__URL >>

\* _get_env_url: the loop over the patterns
RECURSIVE FirstTruthy(_)
FirstTruthy(patterns) ==
  IF patterns = <<>> THEN None
  ELSE IF Truthy(os_getenv(Head(patterns))) THEN os_getenv(Head(patterns))
  ELSE FirstTruthy(Tail(patterns))

\* _get_env_url
get_env_url(slug) == FirstTruthy(env_var_patterns(slug))

\* a fallback URL without the port
fallback_dns_url_NoPort(slug, default_port) == Str_http \o slug

\* _fallback_dns_url
fallback_dns_url(slug, default_port) ==
  Str_http \o slug \o <<":">> \o IntToStr(default_port)

\* ServiceInfo(...)
ServiceInfo(slug, name, description, health_check_url, default_port, tier) ==
  [slug |-> slug, name |-> name, description |-> description,
   health_check_url |-> health_check_url, default_port |-> default_port,
   tier |-> tier]

NoInfo == ServiceInfo(<<>>, <<>>, "", <<>>, 0, "")

\* a resolution that never looks at the environment
Resolve_NoEnv(slug, default_port) ==
  [info |-> ServiceInfo(slug, slug \o Str_fallback,
                        "Service resolved via Docker DNS fallback",
                        fallback_dns_url(slug, default_port),
                        default_port, "api"),
   stages |-> <<"env", "dns">>]

\* a resolution that gives up when the environment has no override
Resolve_NoFallback(slug, default_port) ==
  LET env_url == get_env_url(slug) IN
  IF Truthy(env_url)
  THEN [info |-> ServiceInfo(slug, slug \o Str_from_env,
                             "Service URL from environment variable",
                             env_url.val, default_port, "api"),
        stages |-> <<"env">>]
  ELSE [info |-> NoInfo, stages |-> <<"env", "dns">>]

\* the body of get_service_info: the ServiceInfo it returns and the stages
\* it went through
Resolve(slug, default_port) ==
  LET env_url == get_env_url(slug) IN
  IF Truthy(env_url)
  THEN [info |-> ServiceInfo(slug, slug \o Str_from_env,
                             "Service URL from environment variable",
                             env_url.val, default_port, "api"),
        stages |-> <<"env">>]
  ELSE [info |-> ServiceInfo(slug, slug \o Str_fallback,
                             "Service resolved via Docker DNS fallback",
                             fallback_dns_url(slug, default_port),
                             default_port, "api"),
        stages |-> <<"env", "dns">>]

\* get_service_info(slug, default_port=...)
get_service_info(slug, default_port) ==
  /\ info' = Resolve(slug, default_port).info
  /\ stages' = Resolve(slug, default_port).stages
  /\ rpc' = "returned"
  /\ rslug' = slug
  /\ rport' = default_port
  /\ UNCHANGED environ
  /\ UNCHANGED nonR

\* no call of get_service_info is remembered
NoCall ==
  /\ rpc' = "idle"
  /\ rslug' = <<>>
  /\ rport' = 0
  /\ info' = NoInfo
  /\ stages' = <<>>

\* os.environ[name] = value, by the process or its launcher; the result of
\* an earlier call is not kept across a change of the environment
putenv(name, value) ==
  /\ environ' = [n \in (DOMAIN environ) \cup {name} |->
                   IF n = name THEN value ELSE environ[n]]
  /\ NoCall
  /\ UNCHANGED nonR

\* del os.environ[name]
unsetenv(name) ==
  /\ name \in DOMAIN environ
  /\ environ' = [n \in (DOMAIN environ) \ {name} |-> environ[n]]
  /\ NoCall
  /\ UNCHANGED nonR

ResolveInit ==
  /\ environ = [n \in {} |-> <<>>]
  /\ rpc = "idle"
  /\ rslug = <<>>
  /\ rport = 0
  /\ info = NoInfo
  /\ stages = <<>>

ResolveNext ==
  \/ \E n \in EnvNames, v \in EnvValues : putenv(n, v)
  \/ \E n \in EnvNames : unsetenv(n)
  \/ \E s \in Slugs, p \in Ports : get_service_info(s, p)

-----------------------------------------------------------------------------
(* pmoves_announcer: ServiceAnnouncer.announce_with_retry *)

\* bounds of the model: the largest max_retries and delay passed
MaxRetries == 4
MaxDelay   == 3

RECURSIVE Pow2(_)
Pow2(k) == IF k = 0 THEN 1 ELSE 2 * Pow2(k - 1)

\* delay * (2**attempt)
Backoff(d, k) == d * Pow2(k)

\* a sleep after every failed attempt, the last included
ShouldSleep_Always(k, m) == k < m

\* if attempt < max_retries - 1
ShouldSleep(k, m) == k < m - 1

\* the for loop goes to its next iteration, or is exhausted: return False
LoopAdvance ==
  IF attempt + 1 < max_retries
  THEN /\ attempt' = attempt + 1
       /\ apc' = "announcing"
       /\ nAttempts' = nAttempts + 1
       /\ ret' = ret
  ELSE /\ apc' = "done"
       /\ ret' = FALSE
       /\ UNCHANGED <<attempt, nAttempts>>

\* announce_with_retry(max_retries=m, delay=d) is called: the first
\* iteration reaches `await self.announce()`, or range(0) is empty
announce_with_retry(m, d) ==
  /\ apc = "idle"
  /\ max_retries' = m
  /\ delay' = d
  /\ attempt' = 0
  /\ nFailures' = 0
  /\ waits' = <<>>
  /\ IF m > 0
     THEN /\ apc' = "announcing"
          /\ nAttempts' = 1
          /\ ret' = FALSE
     ELSE /\ apc' = "done"
          /\ nAttempts' = 0
          /\ ret' = FALSE
  /\ UNCHANGED nonA

\* self.announce() returns ok: return True, or sleep, or go on
AnnounceReturns(ok) ==
  /\ apc = "announcing"
  /\ IF ok
     THEN /\ apc' = "done"
          /\ ret' = TRUE
          /\ UNCHANGED <<attempt, nAttempts, nFailures, waits>>
     ELSE /\ nFailures' = nFailures + 1
          /\ IF ShouldSleep(attempt, max_retries)
             THEN /\ waits' = Append(waits, Backoff(delay, attempt))
                  /\ apc' = "sleeping"
                  /\ UNCHANGED <<attempt, nAttempts, ret>>
             ELSE /\ waits' = waits
                  /\ LoopAdvance
  /\ UNCHANGED <<max_retries, delay>>
  /\ UNCHANGED nonA

\* asyncio.sleep returns
SleepReturns ==
  /\ apc = "sleeping"
  /\ LoopAdvance
  /\ UNCHANGED <<max_retries, delay, nFailures, waits>>
  /\ UNCHANGED nonA

\* the caller is done with the returned value and may call again
RetryForget ==
  /\ apc = "done"
  /\ apc' = "idle"
  /\ max_retries' = 0
  /\ delay' = 0
  /\ attempt' = 0
  /\ nAttempts' = 0
  /\ nFailures' = 0
  /\ waits' = <<>>
  /\ ret' = FALSE
  /\ UNCHANGED nonA

RetryInit ==
  /\ apc = "idle"
  /\ max_retries = 0
  /\ delay = 0
  /\ attempt = 0
  /\ nAttempts = 0
  /\ nFailures = 0
  /\ waits = <<>>
  /\ ret = FALSE

RetryNext ==
  \/ \E m \in 0..MaxRetries, d \in 0..MaxDelay : announce_with_retry(m, d)
  \/ \E ok \in BOOLEAN : AnnounceReturns(ok)
  \/ SleepReturns
  \/ RetryForget

-----------------------------------------------------------------------------
(* pmoves_registry: ServiceInfo.base_url *)

\* bound of the model: path segments appended to the host of an input URL
MaxSegs == 2

Str_host == Str_http \o <<"x">>

\* the pieces input URLs are made of
Segments == { Str_healthz, Str_health, Str_metrics, Str_ping,
              <<"/">>, <<"/","a","p","i">>, <<"z">> }

RECURSIVE UrlsUpTo(_)
UrlsUpTo(n) ==
  IF n = 0 THEN {Str_host}
  ELSE UrlsUpTo(n - 1) \cup { u \o g : u \in UrlsUpTo(n - 1), g \in Segments }

UrlInputs == UrlsUpTo(MaxSegs)

\* the tuple of suffixes of base_url, in its order
Suffixes == <<Str_healthz, Str_health, Str_metrics, Str_ping>>

\* str.endswith
EndsWith(s, suffix) ==
  /\ Len(s) >= Len(suffix)
  /\ SubSeq(s, Len(s) - Len(suffix) + 1, Len(s)) = suffix

\* the for loop of base_url from suffix number i on: strip the first suffix
\* that matches, then break
RECURSIVE StripFirstSuffix(_, _)
StripFirstSuffix(s, i) ==
  IF i > Len(Suffixes) THEN s
  ELSE IF EndsWith(s, Suffixes[i])
  THEN SubSeq(s, 1, Len(s) - Len(Suffixes[i]))
  ELSE StripFirstSuffix(s, i + 1)

\* removal of one trailing slash only
rstrip_slash_Once(s) ==
  IF s # <<>> /\ s[Len(s)] = "/" THEN SubSeq(s, 1, Len(s) - 1) ELSE s

\* str.rstrip("/"): every trailing slash is removed
RECURSIVE rstrip_slash(_)
rstrip_slash(s) ==
  IF s # <<>> /\ s[Len(s)] = "/"
  THEN rstrip_slash(SubSeq(s, 1, Len(s) - 1))
  ELSE s

\* ServiceInfo.base_url
base_url(u) == rstrip_slash(StripFirstSuffix(u, 1))

\* a ServiceInfo is constructed with health_check_url u
MakeServiceInfo(u) ==
  /\ upc = "idle"
  /\ upc' = "made"
  /\ url' = u
  /\ UNCHANGED <<base1, base2>>
  /\ UNCHANGED nonU

\* info.base_url is read
ReadBaseUrl ==
  /\ upc = "made"
  /\ upc' = "once"
  /\ base1' = base_url(url)
  /\ UNCHANGED <<url, base2>>
  /\ UNCHANGED nonU

\* a ServiceInfo is constructed with health_check_url base1 and its base_url
\* is read
ReadBaseUrlAgain ==
  /\ upc = "once"
  /\ upc' = "twice"
  /\ base2' = base_url(base1)
  /\ UNCHANGED <<url, base1>>
  /\ UNCHANGED nonU

\* the ServiceInfo objects are dropped
UrlForget ==
  /\ upc = "twice"
  /\ upc' = "idle"
  /\ url' = <<>>
  /\ base1' = <<>>
  /\ base2' = <<>>
  /\ UNCHANGED nonU

UrlInit ==
  /\ upc = "idle"
  /\ url = <<>>
  /\ base1 = <<>>
  /\ base2 = <<>>

UrlNext ==
  \/ \E u \in UrlInputs : MakeServiceInfo(u)
  \/ ReadBaseUrl
  \/ ReadBaseUrlAgain
  \/ UrlForget

-----------------------------------------------------------------------------
(* pmoves_announcer: BackgroundAnnouncer *)

\* bound of the model: loop tasks created over a run
MaxStarts == 2

\* the coroutines that call start() and stop(); each runs one call at a time
Callers == {"c1", "c2"}

\* events recorded in ev that are a publish starting or completing
PublishStarts    == {"begin", "begin_fail"}
PublishCompletes == {"end"}

TaskFinished(t) == tasks[t].st \in {"done", "cancelled"}

SetTaskState(t, st) == [tasks EXCEPT ![t].st = st]

\* a start that does not test the flag: every call creates a loop task
Start_NoGuard(c) ==
  /\ cpc[c] = "idle"
  /\ stopped' = FALSE
  /\ Len(tasks) < MaxStarts
  /\ running' = TRUE
  /\ tasks' = Append(tasks, [st |-> "created", cancel |-> FALSE])
  /\ task' = Len(tasks) + 1
  /\ sinceWait' = 0
  /\ \E susp \in BOOLEAN :
       IF susp
       THEN /\ cpc' = [cpc EXCEPT ![c] = "start_announce"]
            /\ ev' = "begin"
       ELSE /\ cpc' = cpc
            /\ ev' = "begin_fail"
  /\ UNCHANGED cwait
  /\ UNCHANGED nonB

\* BackgroundAnnouncer.start: lines 289-293 up to the first suspension of
\* `await self.announcer.announce()`; announce either suspends on the
\* network (susp) or fails before any suspension and returns False
Start(c) ==
  /\ cpc[c] = "idle"
  /\ stopped' = FALSE
  /\ IF ~running
     THEN /\ Len(tasks) < MaxStarts
          /\ running' = TRUE
          /\ tasks' = Append(tasks, [st |-> "created", cancel |-> FALSE])
          /\ task' = Len(tasks) + 1
          /\ sinceWait' = 0
          /\ \E susp \in BOOLEAN :
               IF susp
               THEN /\ cpc' = [cpc EXCEPT ![c] = "start_announce"]
                    /\ ev' = "begin"
               ELSE /\ cpc' = cpc
                    /\ ev' = "begin_fail"
          /\ UNCHANGED cwait
     ELSE /\ ev' = "start_noop"
          /\ UNCHANGED <<running, task, tasks, cpc, cwait, sinceWait>>
  /\ UNCHANGED nonB

\* the announce awaited by start() returns (True: published), start returns
StartAnnounceReturns(c, ok) ==
  /\ cpc[c] = "start_announce"
  /\ cpc' = [cpc EXCEPT ![c] = "idle"]
  /\ ev' = IF ok THEN "end" ELSE "fail"
  /\ sinceWait' = IF ok THEN sinceWait + 1 ELSE sinceWait
  /\ UNCHANGED <<running, task, tasks, cwait, stopped>>
  /\ UNCHANGED nonB

\* a stop that clears the flag and leaves the loop task alone
Stop_NoCancel(c) ==
  /\ cpc[c] = "idle"
  /\ running' = FALSE
  /\ stopped' = TRUE
  /\ ev' = IF running THEN "stop_return" ELSE "stop_noop"
  /\ UNCHANGED <<task, tasks, cpc, cwait, sinceWait>>
  /\ UNCHANGED nonB

\* BackgroundAnnouncer.stop: lines 297-302 up to `await self._task`, which
\* suspends unless the task has already finished
Stop(c) ==
  /\ cpc[c] = "idle"
  /\ IF running
     THEN /\ running' = FALSE
          /\ IF task # 0 /\ ~TaskFinished(task)
             THEN /\ tasks' = [tasks EXCEPT ![task].cancel = TRUE]
                  /\ cpc' = [cpc EXCEPT ![c] = "stop_wait"]
                  /\ cwait' = [cwait EXCEPT ![c] = task]
                  /\ stopped' = stopped
                  /\ ev' = "stop_wait"
             ELSE /\ stopped' = TRUE
                  /\ ev' = "stop_return"
                  /\ UNCHANGED <<tasks, cpc, cwait>>
          /\ UNCHANGED <<task, sinceWait>>
     ELSE /\ stopped' = TRUE
          /\ ev' = "stop_noop"
          /\ UNCHANGED <<running, task, tasks, cpc, cwait, sinceWait>>
  /\ UNCHANGED nonB

\* the task awaited by stop() has finished: lines 302-304, stop returns
StopReturns(c) ==
  /\ cpc[c] = "stop_wait"
  /\ TaskFinished(cwait[c])
  /\ cpc' = [cpc EXCEPT ![c] = "idle"]
  /\ cwait' = [cwait EXCEPT ![c] = 0]
  /\ stopped' = ~running
  /\ ev' = "stop_return"
  /\ UNCHANGED <<running, task, tasks, sinceWait>>
  /\ UNCHANGED nonB

\* _announce_loop at `while self._running:`: leave the loop, or call
\* announce, which suspends on the network (susp) or fails at once, and then
\* the loop sleeps
LoopIter(t, susp) ==
  IF ~running
  THEN /\ tasks' = SetTaskState(t, "done")
       /\ ev' = "loop_exit"
  ELSE /\ tasks' = SetTaskState(t, IF susp THEN "announcing" ELSE "sleeping")
       /\ ev' = IF susp THEN "begin" ELSE "begin_fail"

\* the event loop runs a created task for the first time
LoopRuns(t, susp) ==
  /\ tasks[t].st = "created"
  /\ ~tasks[t].cancel
  /\ LoopIter(t, susp)
  /\ UNCHANGED <<running, task, cpc, cwait, stopped, sinceWait>>
  /\ UNCHANGED nonB

\* the loop's announce returns (True: published); the loop starts
\* asyncio.sleep(self.interval)
LoopAnnounceReturns(t, ok) ==
  /\ tasks[t].st = "announcing"
  /\ ~tasks[t].cancel
  /\ tasks' = SetTaskState(t, "sleeping")
  /\ ev' = IF ok THEN "end" ELSE "fail"
  /\ sinceWait' = IF ok THEN sinceWait + 1 ELSE sinceWait
  /\ UNCHANGED <<running, task, cpc, cwait, stopped>>
  /\ UNCHANGED nonB

\* the interval has elapsed: the loop tests self._running again
LoopWakes(t, susp) ==
  /\ tasks[t].st = "sleeping"
  /\ ~tasks[t].cancel
  /\ LoopIter(t, susp)
  /\ sinceWait' = 0
  /\ UNCHANGED <<running, task, cpc, cwait, stopped>>
  /\ UNCHANGED nonB

\* a cancellation that a publishing task swallows: the CancelledError raised
\* in announce is caught there and the loop goes on to its sleep
LoopCancelled_SwallowedInAnnounce(t) ==
  /\ ~TaskFinished(t)
  /\ tasks[t].cancel
  /\ IF tasks[t].st = "announcing"
     THEN /\ tasks' = [tasks EXCEPT ![t] = [st |-> "sleeping", cancel |-> FALSE]]
          /\ ev' = "fail"
     ELSE /\ tasks' = SetTaskState(t, "cancelled")
          /\ ev' = "cancelled"
  /\ UNCHANGED <<running, task, cpc, cwait, stopped, sinceWait>>
  /\ UNCHANGED nonB

\* task.cancel() takes effect: CancelledError is raised at the task's
\* current await (or before its first step); nothing in the loop catches it
LoopCancelled(t) ==
  /\ ~TaskFinished(t)
  /\ tasks[t].cancel
  /\ tasks' = SetTaskState(t, "cancelled")
  /\ ev' = "cancelled"
  /\ UNCHANGED <<running, task, cpc, cwait, stopped, sinceWait>>
  /\ UNCHANGED nonB

\* BackgroundAnnouncer.__init__
BgInit ==
  /\ running = FALSE
  /\ task = 0
  /\ tasks = <<>>
  /\ cpc = [c \in Callers |-> "idle"]
  /\ cwait = [c \in Callers |-> 0]
  /\ stopped = FALSE
  /\ ev = "init"
  /\ sinceWait = 0

BgNext ==
  \/ \E c \in Callers : Start(c)
  \/ \E c \in Callers, ok \in BOOLEAN : StartAnnounceReturns(c, ok)
  \/ \E c \in Callers : Stop(c)
  \/ \E c \in Callers : StopReturns(c)
  \/ \E t \in 1..Len(tasks), susp \in BOOLEAN : LoopRuns(t, susp)
  \/ \E t \in 1..Len(tasks), ok \in BOOLEAN : LoopAnnounceReturns(t, ok)
  \/ \E t \in 1..Len(tasks), susp \in BOOLEAN : LoopWakes(t, susp)
  \/ \E t \in 1..Len(tasks) : LoopCancelled(t)

-----------------------------------------------------------------------------
(* pmoves_announcer: ServiceTier, ServiceAnnouncement and its wire format *)

\* the six tiers of pmoves_common.ServiceTier
TierValues_Six == { <<"d","a","t","a">>, <<"a","p","i">>, <<"l","l","m">>,
                    <<"w","o","r","k","e","r">>, <<"m","e","d","i","a">>,
                    <<"a","g","e","n","t">> }

\* the values of the members of ServiceTier
TierValues == { <<"d","a","t","a">>, <<"a","p","i">>, <<"l","l","m">>,
                <<"m","e","d","i","a">>, <<"a","g","e","n","t">>,
                <<"w","o","r","k","e","r">>, <<"a","p","p">>, <<"u","i">> }

\* ServiceAnnouncement.SUBJECT, a dataclass field with a default
SUBJECT == "services.announce.v1"

\* Python values held in metadata: type and content
PyInt(v)   == [t |-> "int", v |-> v]
PyStr(v)   == [t |-> "str", v |-> v]
PyList(v)  == [t |-> "list", v |-> v]
PyTuple(v) == [t |-> "tuple", v |-> v]
PySet(v)   == [t |-> "set", v |-> v]

\* metadata dicts: sets of <<key, value>> with distinct keys
EmptyMeta == {}
Metadatas ==
  { EmptyMeta,
    { <<PyStr("gpu_port"), PyInt("8087")>> },
    { <<PyStr("features"), PyList("vector,graph")>> },
    { <<PyStr("ports"), PyTuple("8086,8087")>> },
    { <<PyInt("1"), PyStr("x")>> },
    { <<PyStr("tags"), PySet("a")>> } }

\* json.dumps can encode the value: a set is not JSON serializable
Serializable(x) == x.t \in {"int", "str", "list", "tuple"}

\* json.dumps of a value: lists and tuples both become arrays
JsonOfValue(x) ==
  CASE x.t = "int"   -> [t |-> "number", v |-> x.v]
    [] x.t = "str"   -> [t |-> "string", v |-> x.v]
    [] x.t = "list"  -> [t |-> "array", v |-> x.v]
    [] x.t = "tuple" -> [t |-> "array", v |-> x.v]

\* json.dumps of a dict key: an int key becomes the string of its digits
JsonOfKey(k) == k.v

\* json.loads of a value
ValueOfJson(j) ==
  CASE j.t = "number" -> PyInt(j.v)
    [] j.t = "string" -> PyStr(j.v)
    [] j.t = "array"  -> PyList(j.v)

\* json.dumps / json.loads of the metadata object
JsonOfMeta(m) == { <<JsonOfKey(e[1]), JsonOfValue(e[2])>> : e \in m }
MetaOfJson(o) == { <<PyStr(e[1]), ValueOfJson(e[2])>> : e \in o }

\* ServiceAnnouncement(...)
ServiceAnnouncement(slug, name, u, hc, tier, port, ts, metadata, subject) ==
  [slug |-> slug, name |-> name, url |-> u, health_check |-> hc,
   tier |-> tier, port |-> port, timestamp |-> ts,
   metadata |-> metadata, SUBJECT |-> subject]

NoAnnouncement == ServiceAnnouncement(<<>>, "", <<>>, <<>>, <<>>, 0, "", {}, "")

NoData == [slug |-> <<>>, name |-> "", url |-> <<>>, health_check |-> <<>>,
           tier |-> <<>>, port |-> 0, timestamp |-> "", metadata |-> {}]

\* ServiceAnnouncement.to_json: the JSON object written, or TypeError from
\* json.dumps
to_json(a) ==
  IF \A e \in a.metadata : Serializable(e[2])
  THEN [ok |-> TRUE,
        data |-> [slug |-> a.slug, name |-> a.name, url |-> a.url,
                  health_check |-> a.health_check, tier |-> a.tier,
                  port |-> a.port, timestamp |-> a.timestamp,
                  metadata |-> JsonOfMeta(a.metadata)]]
  ELSE [ok |-> FALSE, data |-> NoData]

RequiredKeys == {"slug", "name", "url", "health_check", "tier", "port"}

\* ServiceAnnouncement.from_json on a JSON object, at clock value now: the
\* announcement, or KeyError / ValueError
from_json(data, now) ==
  IF RequiredKeys \subseteq DOMAIN data /\ data.tier \in TierValues
  THEN [ok |-> TRUE,
        a |-> ServiceAnnouncement(
                data.slug, data.name, data.url, data.health_check, data.tier,
                data.port,
                IF "timestamp" \in DOMAIN data THEN data.timestamp ELSE now,
                IF "metadata" \in DOMAIN data THEN MetaOfJson(data.metadata)
                ELSE EmptyMeta,
                SUBJECT)]
  ELSE [ok |-> FALSE, a |-> NoAnnouncement]

\* values of datetime.utcnow().isoformat()
Timestamps == {"2026-01-01T00:00:00", "2026-01-01T00:01:00"}

\* inputs of the round trip
WirePorts    == {1, 8080}
WireSubjects == {SUBJECT, "services.announce.v2"}

Str_slug == <<"s","v","c">>

\* a ServiceAnnouncement is constructed
MakeAnnouncement(tier, port, timestamp, metadata, subject) ==
  /\ wpc = "idle"
  /\ wpc' = "made"
  /\ wa' = ServiceAnnouncement(Str_slug, "Service", Str_host,
                               Str_host \o Str_healthz, tier, port, timestamp,
                               metadata, subject)
  /\ UNCHANGED <<wjson, wback>>
  /\ UNCHANGED nonW

\* wa.to_json()
ToJson ==
  /\ wpc = "made"
  /\ wpc' = "encoded"
  /\ wjson' = to_json(wa)
  /\ UNCHANGED <<wa, wback>>
  /\ UNCHANGED nonW

\* ServiceAnnouncement.from_json(...) on the encoded announcement
FromJson(now) ==
  /\ wpc = "encoded"
  /\ wjson.ok
  /\ wpc' = "decoded"
  /\ wback' = from_json(wjson.data, now)
  /\ UNCHANGED <<wa, wjson>>
  /\ UNCHANGED nonW

\* a well-formed JSON object of an announcement
GoodData ==
  [slug |-> Str_slug, name |-> "Service", url |-> Str_host,
   health_check |-> Str_host \o Str_healthz, tier |-> <<"a","p","i">>,
   port |-> 8080, timestamp |-> "2026-01-01T00:00:00", metadata |-> {}]

\* the object without key k / with another tier
WithoutKey(d, k) == [x \in (DOMAIN d) \ {k} |-> d[x]]
WithTier(d, tier) == [d EXCEPT !.tier = tier]

\* JSON objects received from the bus
JsonInputs ==
  { GoodData } \cup { WithoutKey(GoodData, k) : k \in DOMAIN GoodData }
  \cup { WithTier(GoodData, tier) :
           tier \in { <<"u","i">>, <<"A","P","I">>, <<"g","p","u">>, <<>> } }

\* ServiceAnnouncement.from_json(data) on a received object
ParseJson(data, now) ==
  /\ wpc = "idle"
  /\ wpc' = "parsed"
  /\ wjson' = [ok |-> TRUE, data |-> data]
  /\ wback' = from_json(data, now)
  /\ UNCHANGED wa
  /\ UNCHANGED nonW

\* the objects are dropped
WireForget ==
  /\ wpc \in {"encoded", "decoded", "parsed"}
  /\ wpc' = "idle"
  /\ wa' = NoAnnouncement
  /\ wjson' = [ok |-> FALSE, data |-> NoData]
  /\ wback' = [ok |-> FALSE, a |-> NoAnnouncement]
  /\ UNCHANGED nonW

WireInit ==
  /\ wpc = "idle"
  /\ wa = NoAnnouncement
  /\ wjson = [ok |-> FALSE, data |-> NoData]
  /\ wback = [ok |-> FALSE, a |-> NoAnnouncement]

WireNext ==
  \/ \E tier \in TierValues, port \in WirePorts, ts \in Timestamps,
        m \in Metadatas, sj \in WireSubjects :
       MakeAnnouncement(tier, port, ts, m, sj)
  \/ ToJson
  \/ \E now \in Timestamps : FromJson(now)
  \/ \E data \in JsonInputs, now \in Timestamps : ParseJson(data, now)
  \/ WireForget

-----------------------------------------------------------------------------
(* pmoves_announcer: ServiceAnnouncer.__init__ and announce *)

\* arguments of ServiceAnnouncer(...)
TierArgs        == { <<"a","p","i">>, <<"A","P","I">>, <<"u","i">>,
                     <<"g","p","u">> }
UrlArgs         == { Str_host, Str_host \o <<"/">> }
HealthCheckArgs == { None, Some(Str_host \o Str_health) }
MetadataArgs    == { None, Some({ <<PyStr("gpu_port"), PyInt("8087")>> }),
                     Some({ <<PyStr("tags"), PySet("a")>> }) }

AnnouncerPort == 8080

NoAnnouncer ==
  [slug |-> <<>>, name |-> "", url |-> <<>>, port |-> 0, tier |-> <<>>,
   health_check |-> <<>>, metadata |-> {}]

NoArgs == [tier |-> <<>>, health_check |-> None]

\* the exceptions the steps inside the try block of announce raise
Exceptions == {"ImportError", "TypeError", "TimeoutError", "ConnectionError"}

\* only the transport errors are caught
IsException_TransportOnly(e) == e \in {"TimeoutError", "ConnectionError"}

\* `except Exception`: every one of them is an Exception
IsException(e) == e \in Exceptions

\* no announce call is in progress or remembered
NoAnnounceCall ==
  /\ announcement' = NoAnnouncement
  /\ nc' = "none"
  /\ published' = <<>>
  /\ ndone' = <<>>
  /\ nexc' = ""
  /\ nret' = FALSE

\* ServiceAnnouncer.__init__: ServiceTier(tier.lower()) raises ValueError
\* for an unknown tier and no object is constructed
ServiceAnnouncer_init(u, tier, health_check, metadata) ==
  /\ npc \in {"none", "idle", "returned", "raised"}
  /\ nargs' = [tier |-> tier, health_check |-> health_check]
  /\ IF Lower(tier) \in TierValues
     THEN /\ announcer' =
               [slug |-> Str_slug, name |-> "Service", url |-> u,
                port |-> AnnouncerPort, tier |-> Lower(tier),
                health_check |->
                  IF Truthy(health_check) THEN health_check.val
                  ELSE rstrip_slash(u) \o Str_healthz,
                metadata |->
                  IF metadata.some /\ metadata.val # {} THEN metadata.val
                  ELSE EmptyMeta]
          /\ npc' = "idle"
     ELSE /\ announcer' = NoAnnouncer
          /\ npc' = "none"
  /\ NoAnnounceCall
  /\ UNCHANGED nonN

\* ServiceAnnouncer.create_announcement at clock value now
create_announcement(now) ==
  ServiceAnnouncement(announcer.slug, announcer.name, announcer.url,
                      announcer.health_check, announcer.tier, announcer.port,
                      now, announcer.metadata, SUBJECT)

\* exception e is raised inside the try block: caught by `except Exception`
\* (return False), or it leaves announce
Raise(e) ==
  /\ nexc' = e
  /\ IF IsException(e)
     THEN npc' = "returned" /\ nret' = FALSE
     ELSE npc' = "raised" /\ nret' = nret

\* announce is called: the import of the NATS client, create_announcement,
\* and NATS.connect is awaited
Announce(import_ok, now) ==
  /\ npc \in {"idle", "returned", "raised"}
  /\ nc' = "none"
  /\ published' = <<>>
  /\ ndone' = <<>>
  /\ IF import_ok
     THEN /\ announcement' = create_announcement(now)
          /\ npc' = "connect"
          /\ nexc' = ""
          /\ nret' = FALSE
     ELSE /\ announcement' = NoAnnouncement
          /\ Raise("ImportError")
  /\ UNCHANGED <<announcer, nargs>>
  /\ UNCHANGED nonN

\* NATS.connect returns a connection, or raises e
ConnectReturns(ok, e) ==
  /\ npc = "connect"
  /\ IF ok
     THEN /\ nc' = "open"
          /\ ndone' = Append(ndone, "connect")
          /\ npc' = "publish"
          /\ UNCHANGED <<nexc, nret>>
     ELSE /\ Raise(e)
          /\ UNCHANGED <<nc, ndone>>
  /\ UNCHANGED <<announcer, nargs, announcement, published>>
  /\ UNCHANGED nonN

\* nc.publish(SUBJECT, announcement.to_json().encode()): to_json raises
\* TypeError, or publish returns, or publish raises e
PublishReturns(ok, e) ==
  /\ npc = "publish"
  /\ IF ~to_json(announcement).ok
     THEN /\ Raise("TypeError")
          /\ UNCHANGED <<published, ndone>>
     ELSE IF ok
     THEN /\ published' =
               Append(published, [subject |-> announcement.SUBJECT,
                                  payload |-> to_json(announcement).data])
          /\ ndone' = Append(ndone, "publish")
          /\ npc' = "flush"
          /\ UNCHANGED <<nexc, nret>>
     ELSE /\ Raise(e)
          /\ UNCHANGED <<published, ndone>>
  /\ UNCHANGED <<announcer, nargs, announcement, nc>>
  /\ UNCHANGED nonN

\* nc.flush() returns or raises e
FlushReturns(ok, e) ==
  /\ npc = "flush"
  /\ IF ok
     THEN /\ ndone' = Append(ndone, "flush")
          /\ npc' = "close"
          /\ UNCHANGED <<nexc, nret>>
     ELSE /\ Raise(e)
          /\ UNCHANGED ndone
  /\ UNCHANGED <<announcer, nargs, announcement, nc, published>>
  /\ UNCHANGED nonN

\* nc.close() returns (return True) or raises e
CloseReturns(ok, e) ==
  /\ npc = "close"
  /\ IF ok
     THEN /\ nc' = "closed"
          /\ ndone' = Append(ndone, "close")
          /\ npc' = "returned"
          /\ nret' = TRUE
          /\ UNCHANGED nexc
     ELSE /\ Raise(e)
          /\ UNCHANGED <<nc, ndone>>
  /\ UNCHANGED <<announcer, nargs, announcement, published>>
  /\ UNCHANGED nonN

TransportErrors == {"TimeoutError", "ConnectionError"}

AnnounceInit ==
  /\ announcer = NoAnnouncer
  /\ nargs = NoArgs
  /\ npc = "none"
  /\ announcement = NoAnnouncement
  /\ nc = "none"
  /\ published = <<>>
  /\ ndone = <<>>
  /\ nexc = ""
  /\ nret = FALSE

AnnounceNext ==
  \/ \E u \in UrlArgs, tier \in TierArgs, hc \in HealthCheckArgs,
        m \in MetadataArgs : ServiceAnnouncer_init(u, tier, hc, m)
  \/ \E import_ok \in BOOLEAN, now \in Timestamps : Announce(import_ok, now)
  \/ \E ok \in BOOLEAN, e \in TransportErrors : ConnectReturns(ok, e)
  \/ \E ok \in BOOLEAN, e \in TransportErrors : PublishReturns(ok, e)
  \/ \E ok \in BOOLEAN, e \in TransportErrors : FlushReturns(ok, e)
  \/ \E ok \in BOOLEAN, e \in TransportErrors : CloseReturns(ok, e)

-----------------------------------------------------------------------------
(* pmoves_health.HTTPCheck.check and pmoves_registry.check_service_health *)

\* URLs given to HTTPCheck
HttpCheckUrls == { Str_host, Str_host \o Str_healthz, Str_host \o Str_health }

\* status codes of a response, and exceptions of client.get (httpx
\* TimeoutException, ConnectError)
StatusCodes   == {200, 201, 204, 301, 302, 401, 404, 500, 503}
GetExceptions == {"TimeoutException", "ConnectError"}

NoOutcome == [code |-> 0, exc |-> ""]

\* a success test that accepts every 2xx code
StatusOk_Any2xx(code) == code \in 200..299

\* response.status_code == 200
StatusOk(code) == code = 200

\* HTTPCheck.check is called: `import httpx` is inside the try block, a
\* failing import is caught (return False); else client.get(self.url)
HTTPCheck_check(target, import_ok) ==
  /\ ppc = "idle"
  /\ pfun' = "HTTPCheck.check"
  /\ ptarget' = target
  /\ pout' = NoOutcome
  /\ pret' = FALSE
  /\ IF import_ok
     THEN ppc' = "get" /\ pexc' = ""
     ELSE ppc' = "returned" /\ pexc' = "ImportError"
  /\ UNCHANGED nonP

\* check_service_health is called: `import httpx` (line 212) is before the
\* try block, a failing import leaves the function; else get_service_info
\* and client.get(info.health_check_url)
check_service_health(slug, default_port, import_ok) ==
  /\ ppc = "idle"
  /\ pfun' = "check_service_health"
  /\ pout' = NoOutcome
  /\ pret' = FALSE
  /\ IF import_ok
     THEN /\ ptarget' = Resolve(slug, default_port).info.health_check_url
          /\ ppc' = "get"
          /\ pexc' = ""
     ELSE /\ ptarget' = <<>>
          /\ ppc' = "raised"
          /\ pexc' = "ImportError"
  /\ UNCHANGED nonP

\* the response arrives: return response.status_code == 200
GetResponds(code) ==
  /\ ppc = "get"
  /\ ppc' = "returned"
  /\ pout' = [code |-> code, exc |-> ""]
  /\ pret' = StatusOk(code)
  /\ UNCHANGED <<pfun, ptarget, pexc>>
  /\ UNCHANGED nonP

\* the client raises e: except Exception, return False
GetRaises(e) ==
  /\ ppc = "get"
  /\ ppc' = "returned"
  /\ pout' = [code |-> 0, exc |-> e]
  /\ pexc' = e
  /\ pret' = FALSE
  /\ UNCHANGED <<pfun, ptarget>>
  /\ UNCHANGED nonP

\* the caller is done with the result
ProbeForget ==
  /\ ppc \in {"returned", "raised"}
  /\ ppc' = "idle"
  /\ pfun' = ""
  /\ ptarget' = <<>>
  /\ pout' = NoOutcome
  /\ pexc' = ""
  /\ pret' = FALSE
  /\ UNCHANGED nonP

ProbeInit ==
  /\ ppc = "idle"
  /\ pfun = ""
  /\ ptarget = <<>>
  /\ pout = NoOutcome
  /\ pexc = ""
  /\ pret = FALSE

ProbeNext ==
  \/ \E target \in HttpCheckUrls, import_ok \in BOOLEAN :
       HTTPCheck_check(target, import_ok)
  \/ \E s \in Slugs, p \in Ports, import_ok \in BOOLEAN :
       check_service_health(s, p, import_ok)
  \/ \E code \in StatusCodes : GetResponds(code)
  \/ \E e \in GetExceptions : GetRaises(e)
  \/ ProbeForget

-----------------------------------------------------------------------------
(* Specifications *)

Init ==
  /\ HealthInit /\ ResolveInit /\ RetryInit /\ BgInit /\ UrlInit
  /\ AnnounceInit /\ WireInit /\ ProbeInit

SpecHealth  == Init /\ [][HealthNext]_vars
SpecResolve == Init /\ [][ResolveNext]_vars
SpecRetry   == Init /\ [][RetryNext]_vars
SpecBg      == Init /\ [][BgNext]_vars
SpecUrl     == Init /\ [][UrlNext]_vars

\* the event loop runs every task that is ready: a task whose cancellation
\* was requested is resumed with CancelledError, and a stop() whose awaited
\* task has finished is resumed
BgFairness ==
  /\ \A t \in 1..MaxStarts : WF_vars(t \in DOMAIN tasks /\ LoopCancelled(t))
  /\ \A c \in Callers : WF_vars(StopReturns(c))

SpecBgFair  == Init /\ [][BgNext]_vars /\ BgFairness
SpecAnnounce == Init /\ [][AnnounceNext]_vars
SpecWire    == Init /\ [][WireNext]_vars
SpecProbe   == Init /\ [][ProbeNext]_vars

\* construction of announcements from received objects and of announcers
ConstructNext ==
  \/ \E data \in JsonInputs, now \in Timestamps : ParseJson(data, now)
  \/ WireForget
  \/ \E u \in UrlArgs, tier \in TierArgs, hc \in HealthCheckArgs,
        m \in MetadataArgs : ServiceAnnouncer_init(u, tier, hc, m)

SpecConstruct == Init /\ [][ConstructNext]_vars

-----
(* Claims about HealthChecker.check_all, under SpecHealth *)

\* probe p of the finished run returned a falsy value or raised
Failed(p) == outcomes[p] # "true"

\* the status the documented rule derives from what the probes did
DerivedStatus ==
  IF \E p \in 1..Total : Failed(p) /\ (IsBuiltin(p) => checks[p].required)
  THEN UNHEALTHY
  ELSE IF \E p \in 1..Total : Failed(p) /\ IsBuiltin(p) /\ ~checks[p].required
  THEN DEGRADED
  ELSE HEALTHY

\* C1: the report's status is 'unhealthy' iff a required built-in check or a
\* custom check failed, 'degraded' iff none of those failed and an optional
\* built-in check failed, 'healthy' otherwise.
C1_StatusDerivation ==
  hpc = "done" => results[Str_status] = DerivedStatus

\* C7: in a run where a probe raised, every registered check was executed
\* and the returned report holds, under each check's key, that check's own
\* result (False for a probe that raised); the call returned a report.
C7_RaiseIsolated ==
  (hpc = "done" /\ \E p \in DOMAIN outcomes : outcomes[p] = "raise") =>
     /\ DOMAIN outcomes = 1..Total
     /\ \A p \in 1..Total :
          /\ KeyOf(p) \in DOMAIN results
          /\ results[KeyOf(p)] = PyBool(outcomes[p] = "true")

\* C8: the probes run concurrently: while a probe is in flight and a
\* registered probe has not been started, check_all can start that probe;
\* the report is returned only after every probe has completed.
C8_FanOut ==
  /\ (hpc = "running" /\ inflight # {} /\ nextIdx <= Total) =>
       ENABLED ProbeStart
  /\ hpc = "done" => (inflight = {} /\ DOMAIN outcomes = 1..Total)

\* C9: the report's status is one of the three status strings, and service
\* and timestamp hold the service name and the run's timestamp.
C9_ReportFields ==
  hpc = "done" =>
     /\ results[Str_status] \in {HEALTHY, DEGRADED, UNHEALTHY}
     /\ results[Str_service] = ServiceName
     /\ results[Str_timestamp] = Timestamp

\* C20: the returned report holds, for every registered check, under that
\* check's key (status_key for a built-in check, the name for a custom
\* check), the boolean result of that check's own probe, whatever the
\* number of checks and whether or not several have the same name.
C20_OwnResultPerCheck ==
  hpc = "done" =>
     \A p \in 1..Total :
        /\ KeyOf(p) \in DOMAIN results
        /\ results[KeyOf(p)] \in {"True", "False"}
        /\ results[KeyOf(p)] = "True" <=> outcomes[p] = "true"

\* C17: the endpoint answers 503 exactly when the status aggregated from
\* the registered checks and their outcomes is 'unhealthy', and 200 when it
\* is 'healthy' or 'degraded'; the body is the report of check_all.
C17_HttpMapping ==
  /\ hpc = "done" <=> http # NoResponse
  /\ http # NoResponse =>
     /\ hpc = "done"
     /\ http.code \in {200, 503}
     /\ http.code = 503 <=> DerivedStatus = UNHEALTHY
     /\ http.code = 200 <=> DerivedStatus \in {HEALTHY, DEGRADED}
     /\ http.code = 503 <=> results[Str_status] = UNHEALTHY
     /\ http.body = results

\* an optional check failed, nothing else did: degraded is answered with 200
C17_Witness ==
  /\ http.code = 200
  /\ results[Str_status] = DEGRADED
  /\ \E p \in 1..Total : Failed(p)

\* check_all as a function of the registry (cs, cc) and the probe outcomes
\* (out): the locals after the first p probes, lines 168-204
RECURSIVE Replay(_, _, _, _)
Replay(cs, cc, out, p) ==
  IF p = 0
  THEN [r  |-> DictSet(DictSet(DictSet(EmptyDict,
                  Str_status, HEALTHY),
                  Str_service, ServiceName),
                  Str_timestamp, Timestamp),
        ah |-> TRUE,
        sd |-> FALSE]
  ELSE LET prev == Replay(cs, cc, out, p - 1)
           ok   == out[p] = "true"
       IN  IF p <= Len(cs)
           THEN [r  |-> DictSet(prev.r, status_key(cs[p].name), PyBool(ok)),
                 ah |-> prev.ah /\ (ok \/ ~cs[p].required),
                 sd |-> prev.sd \/ (~ok /\ ~cs[p].required)]
           ELSE [r  |-> DictSet(prev.r, cc[p - Len(cs)], PyBool(ok)),
                 ah |-> prev.ah /\ ok,
                 sd |-> prev.sd]

\* the report of a whole run, lines 206-212
RunReport(cs, cc, out) ==
  LET f == Replay(cs, cc, out, Len(cs) + Len(cc))
  IN  IF ~f.ah THEN DictSet(f.r, Str_status, UNHEALTHY)
      ELSE IF f.sd THEN DictSet(f.r, Str_status, DEGRADED)
      ELSE f.r

\* C24: no step of a check_all run (its begin, its probes, its return)
\* changes the list of checks or the mapping of custom checks; a step that
\* changes either is an add_check or add_custom_check, adding one entry; and
\* the report returned is a function of the registry and the probe outcomes
\* alone, so that two runs with the same registry and outcomes return the
\* same report.
C24_RegistryUntouched ==
  /\ [][(hpc = "running" \/ hpc' = "running" \/ hpc' = "done") =>
           UNCHANGED <<checks, custom_checks>>]_vars
  /\ [][<<checks, custom_checks>>' # <<checks, custom_checks>> =>
           /\ hpc # "running"
           /\ hpc' = "idle"
           /\ Len(checks') + Len(custom_checks') =
                Len(checks) + Len(custom_checks) + 1]_vars
  /\ [](hpc = "done" =>
           /\ DOMAIN outcomes = 1..Total
           /\ results = RunReport(checks, custom_checks, outcomes))

\* a run over a built-in check and a custom check, one of which failed, has
\* returned
C24_Witness ==
  /\ hpc = "done"
  /\ Len(checks) >= 1
  /\ Len(custom_checks) >= 1
  /\ \E p \in 1..Total : Failed(p)
  /\ results = RunReport(checks, custom_checks, outcomes)

\* the per-check entries of a report: every key but the three report fields
Entries(report) == (DOMAIN report) \ {Str_status, Str_service, Str_timestamp}

\* C25: in the returned report, status 'unhealthy' or 'degraded' comes with
\* at least one per-check entry that is false, and status 'healthy' with
\* per-check entries that are all true.
C25_SelfConsistent ==
  hpc = "done" =>
     /\ results[Str_status] \in {UNHEALTHY, DEGRADED} =>
           \E k \in Entries(results) : results[k] = "False"
     /\ results[Str_status] = HEALTHY =>
           \A k \in Entries(results) : results[k] = "True"

-----------------------------------------------------------------------------
(* Claims about get_service_info, under SpecResolve *)

\* one of the slug's candidate variables holds a non-empty value
HasOverride(slug) ==
  \E i \in 1..3 : Truthy(os_getenv(env_var_patterns(slug)[i]))

\* C2: the call goes through env override, catalog lookup, bus-announcement
\* cache and DNS fallback in that order, first match wins: without an env
\* override the catalog and then the cache are consulted before the DNS
\* result is returned.
C2_FourStageChain ==
  rpc = "returned" =>
     stages = IF HasOverride(rslug) THEN <<"env">>
              ELSE <<"env", "catalog", "cache", "dns">>

\* C3: when a candidate variable of the slug holds a non-empty value, the
\* returned ServiceInfo has that value as health_check_url and tier api, and
\* no stage after the env override was gone through.
C3_EnvOverrideWins ==
  (rpc = "returned" /\ HasOverride(rslug)) =>
     /\ \E i \in 1..3 :
          /\ Truthy(os_getenv(env_var_patterns(rslug)[i]))
          /\ info.health_check_url = environ[env_var_patterns(rslug)[i]]
     /\ info.tier = "api"
     /\ info.slug = rslug
     /\ stages = <<"env">>

\* A_B_URL is set to http://x:9 and slug a-b was resolved to it
C3_Witness ==
  /\ rpc = "returned"
  /\ rslug = <<"a","-","b">>
  /\ (<<"A","_","B">> \o Str__URL) \in DOMAIN environ
  /\ environ[<<"A","_","B">> \o Str__URL] = Str_http \o <<"x",":","9">>
  /\ info.health_check_url = Str_http \o <<"x",":","9">>
  /\ stages = <<"env">>

C12_FallbackUrl ==
  (rpc = "returned" /\ ~HasOverride(rslug)) =>
     /\ info.health_check_url =
          <<"h","t","t","p",":","/","/">> \o rslug \o <<":">> \o IntToStr(rport)
     /\ info.name = rslug \o Str_fallback
     /\ info.tier = "api"
     /\ info.slug = rslug

\* slug ab with default_port 8080 and an empty environment resolves to
\* http://ab:8080
C12_Witness ==
  /\ rpc = "returned"
  /\ rslug = <<"a","b">>
  /\ rport = 8080
  /\ DOMAIN environ = {}
  /\ info.health_check_url =
       <<"h","t","t","p",":","/","/","a","b",":","8","0","8","0">>

\* the three candidate names of a slug, written out
UpperSnake(slug)  == ReplaceChar(Upper(slug), "-", <<"_">>) \o <<"_","U","R","L">>
UpperNoDash(slug) == ReplaceChar(Upper(slug), "-", <<>>) \o <<"_","U","R","L">>
UpperDash(slug)   == Upper(slug) \o <<"_","U","R","L">>

\* the variable is set and its value is not the empty string
NonEmpty(name) == name \in DOMAIN environ /\ environ[name] # <<>>

-----------------------------------------------------------------------------
(* Claims about announce_with_retry, under SpecRetry *)

\* C4: the attempts are sequential; the call returns True at the first
\* successful attempt, and otherwise makes exactly max_retries attempts and
\* returns False; the k-th wait (k from 0) is delay * 2^k and lies between
\* attempt k and attempt k+1; no wait follows the final failed attempt.
C4_RetrySchedule ==
  /\ nAttempts <= max_retries
  /\ \A k \in 1..Len(waits) : waits[k] = delay * (2 ^ (k - 1))
  /\ apc = "announcing" =>
       (nFailures = nAttempts - 1 /\ Len(waits) = nAttempts - 1)
  /\ apc = "sleeping" =>
       /\ nFailures = nAttempts
       /\ Len(waits) = nAttempts
       /\ nAttempts < max_retries
  /\ apc = "done" =>
       IF ret
       THEN /\ nAttempts >= 1
            /\ nFailures = nAttempts - 1
            /\ Len(waits) = nAttempts - 1
       ELSE /\ nAttempts = max_retries
            /\ nFailures = max_retries
            /\ Len(waits) = IF max_retries = 0 THEN 0 ELSE max_retries - 1

\* max_retries=3, delay=1, every attempt failed: 3 attempts, waits 1 and 2
C4_Witness ==
  /\ apc = "done"
  /\ ~ret
  /\ max_retries = 3
  /\ delay = 1
  /\ nAttempts = 3
  /\ waits = <<1, 2>>

-----------------------------------------------------------------------------
(* Claims about BackgroundAnnouncer, under SpecBg *)

\* C5: after start() takes the announcer from idle to running, one
\* announcement is published before the first interval elapses, and every
\* later one is separated from the previous one by an interval wait: no
\* two announcements are published without an interval elapsing between.
C5_OnePublishPerInterval ==
  sinceWait <= 1

\* C6: once a stop() has returned and until start() is called again, no
\* step is a publish starting or completing.
C6_NoPublishAfterStop ==
  [][(stopped /\ stopped') => ev' \notin (PublishStarts \cup PublishCompletes)]_vars

\* the step is a stop() call made while running / a stop() returning after
\* it awaited the loop task
StopIssuedRunning ==
  running /\ (ev' = "stop_wait" \/ (ev' = "stop_return" /\ cpc' = cpc))

StopReturnedAfterWait ==
  ev' = "stop_return" /\ cpc' # cpc

\* C14: a stop() called while the announcer is idle changes nothing and
\* starts no publish; a stop() called while running clears the running
\* flag at once and requests the cancellation of the loop task, and when it
\* returns that task has ended by cancellation (its pending wait or publish
\* did not complete).
C14_StopIdempotent ==
  [][ /\ ev' = "stop_noop" =>
           (~running /\ UNCHANGED <<running, task, tasks, cpc, cwait, sinceWait>>)
      /\ ev' = "stop_wait" => running
      /\ StopIssuedRunning =>
           /\ ~running'
           /\ task # 0
           /\ tasks'[task].cancel \/ TaskFinished(task)
      /\ StopReturnedAfterWait =>
           \E c \in Callers :
              /\ cpc[c] = "stop_wait"
              /\ cpc'[c] = "idle"
              /\ tasks[cwait[c]].st = "cancelled"
    ]_vars

\* a second stop() after the stop() that cancelled the only loop task
C14_Witness ==
  /\ ev = "stop_noop"
  /\ ~running
  /\ Len(tasks) = 1
  /\ tasks[1].st = "cancelled"
  /\ cpc = [c \in Callers |-> "idle"]

\* C23: a stop() that waits for the loop task has requested its
\* cancellation at once; a loop task that was current when the announcer was
\* stopped, whatever it was doing, eventually terminates, and it terminates
\* by cancellation, not by a further iteration; every waiting stop()
\* eventually returns, and when it returns the task it waited for is
\* cancelled and the announcer is idle unless a later start() has begun a
\* new loop task.
C23_NoStuckLoop ==
  /\ [](\A c \in Callers :
          cpc[c] = "stop_wait" =>
             (tasks[cwait[c]].cancel \/ TaskFinished(cwait[c])))
  /\ [](\A t \in DOMAIN tasks : TaskFinished(t) => tasks[t].st = "cancelled")
  /\ \A t \in 1..MaxStarts :
        (t \in DOMAIN tasks /\ task = t /\ ~running)
           ~> (t \in DOMAIN tasks /\ tasks[t].st = "cancelled")
  /\ \A c \in Callers : (cpc[c] = "stop_wait") ~> (cpc[c] = "idle")
  /\ [][\A c \in Callers :
          (cpc[c] = "stop_wait" /\ cpc'[c] = "idle") =>
             /\ tasks[cwait[c]].st = "cancelled"
             /\ ~running' \/ task' # cwait[c]]_vars

\* a stop() that waited for the loop task has returned: the task is
\* cancelled and the announcer is idle
C23_Witness ==
  /\ ev = "stop_return"
  /\ stopped
  /\ ~running
  /\ Len(tasks) = 1
  /\ tasks[1].st = "cancelled"
  /\ sinceWait = 0

\* a loop task that has not finished and whose cancellation has not been
\* requested
Live(t) == ~TaskFinished(t) /\ ~tasks[t].cancel

LiveTasks == {t \in DOMAIN tasks : Live(t)}

\* C26: at any time at most one loop task is live (not finished, not
\* cancelled by stop), the running flag is true exactly when there is one,
\* and it is the task the announcer holds; a step that creates a loop task
\* starts from the idle announcer and creates exactly one; a start() on a
\* running announcer changes nothing: no task, no publish begun, no caller
\* suspended.
C26_OneLoopTask ==
  /\ [](Cardinality(LiveTasks) <= 1)
  /\ [](running <=> LiveTasks # {})
  /\ [](running => LiveTasks = {task})
  /\ [][Len(tasks') > Len(tasks) =>
          /\ ~running
          /\ LiveTasks = {}
          /\ Len(tasks') = Len(tasks) + 1]_vars
  /\ [][ev' = "start_noop" =>
          /\ running
          /\ UNCHANGED <<running, task, tasks, cpc, cwait, sinceWait>>]_vars

\* start() was called on an announcer that was stopped and started again:
\* the second loop task is the only live one
C26_Witness ==
  /\ ev = "start_noop"
  /\ running
  /\ Len(tasks) = 2
  /\ LiveTasks = {2}

-----------------------------------------------------------------------------
(* Claims about ServiceAnnouncer.announce, under SpecAnnounce *)

AllTransportSteps == <<"connect", "publish", "flush", "close">>

\* C15: no exception leaves announce; it returns True exactly when connect,
\* publish, flush and close all succeeded, in which case one message was
\* accepted on subject services.announce.v1; it returns False when a step
\* failed, and the failed step is the first that did not succeed.
C15_AnnounceNeverRaises ==
  /\ npc # "raised"
  /\ npc = "returned" =>
       /\ nret <=> (ndone = AllTransportSteps)
       /\ nret <=> (nexc = "")
       /\ nret => /\ Len(published) = 1
                  /\ published[1].subject = "services.announce.v1"
                  /\ nc = "closed"
       /\ \E k \in 0..4 : ndone = SubSeq(AllTransportSteps, 1, k)

\* connect and publish succeeded, flush timed out: False was returned
C15_Witness ==
  /\ npc = "returned"
  /\ ~nret
  /\ ndone = <<"connect", "publish">>
  /\ nexc = "TimeoutError"

\* C22: without a health_check argument the announcer's health_check, and
\* that of the announcements it creates, is url + '/healthz' for every url;
\* a health_check argument is used unchanged.
C22_HealthCheckDefault ==
  /\ npc # "none" =>
       announcer.health_check =
         IF nargs.health_check.some THEN nargs.health_check.val
         ELSE announcer.url \o <<"/","h","e","a","l","t","h","z">>
  /\ npc \in {"connect", "publish", "flush", "close"} =>
       announcement.health_check = announcer.health_check

-----------------------------------------------------------------------------
(* Claims about malformed input, under SpecConstruct *)

EightTiers ==
  { <<"d","a","t","a">>, <<"a","p","i">>, <<"l","l","m">>,
    <<"m","e","d","i","a">>, <<"a","g","e","n","t">>,
    <<"w","o","r","k","e","r">>, <<"a","p","p">>, <<"u","i">> }

\* the object has slug, name, url, health_check, tier and port, and its tier
\* is one of the eight
WellFormed(d) ==
  /\ {"slug", "name", "url", "health_check", "tier", "port"} \subseteq DOMAIN d
  /\ d.tier \in EightTiers

\* C21: from_json yields an announcement exactly for a well-formed object
\* and fails, yielding none, when a required field is missing or the tier
\* is not one of the eight; ServiceAnnouncer(...) fails, leaving no
\* announcer, exactly when its tier string names none of the eight tiers.
C21_MalformedRejected ==
  /\ wpc = "parsed" =>
       /\ wback.ok <=> WellFormed(wjson.data)
       /\ ~wback.ok => wback.a = NoAnnouncement
       /\ wback.ok => /\ wback.a.tier = wjson.data.tier
                      /\ wback.a.slug = wjson.data.slug
                      /\ wback.a.port = wjson.data.port
  /\ nargs # NoArgs =>
       /\ npc = "none" <=> Lower(nargs.tier) \notin EightTiers
       /\ npc = "none" => announcer = NoAnnouncer
       /\ npc # "none" => announcer.tier \in EightTiers

\* an object without port was rejected, and so was the tier string gpu
C21_Witness ==
  /\ wpc = "parsed"
  /\ "port" \notin DOMAIN wjson.data
  /\ ~wback.ok
  /\ nargs.tier = <<"g","p","u">>
  /\ npc = "none"

-----------------------------------------------------------------------------
(* Claims about the HTTP probes, under SpecProbe *)

\* C19: HTTPCheck.check and check_service_health never raise to the caller,
\* and return True exactly when the GET completed with status code 200.
C19_Only200NeverRaises ==
  /\ ppc # "raised"
  /\ ppc = "returned" => (pret <=> (pout.exc = "" /\ pout.code = 200))

-----------------------------------------------------------------------------
(* Claims about the wire format, under SpecWire *)

\* C16: from_json(a.to_json()) succeeds and equals a field for field, for
\* every ServiceAnnouncement a.
C16_RoundTrip ==
  /\ wpc = "encoded" => wjson.ok
  /\ wpc = "decoded" => (wback.ok /\ wback.a = wa)

-----------------------------------------------------------------------------
(* Claims about ServiceInfo.base_url, under SpecUrl *)

\* the first of the four suffixes, in the documented order, that u ends
\* with is removed; at most one
DropOneSuffix(u) ==
  IF EndsWith(u, <<"/","h","e","a","l","t","h","z">>)
  THEN SubSeq(u, 1, Len(u) - 8)
  ELSE IF EndsWith(u, <<"/","h","e","a","l","t","h">>)
  THEN SubSeq(u, 1, Len(u) - 7)
  ELSE IF EndsWith(u, <<"/","m","e","t","r","i","c","s">>)
  THEN SubSeq(u, 1, Len(u) - 8)
  ELSE IF EndsWith(u, <<"/","p","i","n","g">>)
  THEN SubSeq(u, 1, Len(u) - 5)
  ELSE u

\* a single trailing slash is removed
DropOneSlash(u) ==
  IF u # <<>> /\ u[Len(u)] = "/" THEN SubSeq(u, 1, Len(u) - 1) ELSE u

\* C18: base_url is health_check_url with the first matching suffix of
\* /healthz, /health, /metrics, /ping removed (at most one) and then a
\* single trailing slash removed; nothing else is changed.
C18_OneSuffixOneSlash ==
  upc \in {"once", "twice"} => base1 = DropOneSlash(DropOneSuffix(url))

EndsWithSuffix(s) == \E i \in 1..Len(Suffixes) : EndsWith(s, Suffixes[i])

\* C10 (as stated): base_url of a ServiceInfo whose health_check_url is
\* base_url(u) equals base_url(u), for every u.
C10_Idempotent ==
  upc = "twice" => base2 = base1

\* C10 (amended): the second application returns base_url(u) unchanged
\* exactly when base_url(u) does not itself end in one of the four
\* suffixes; otherwise it strips a further suffix.
C10_IdempotentUnlessSuffixRemains ==
  upc = "twice" => (base2 = base1 <=> ~EndsWithSuffix(base1))

\* http://x/healthz is stripped to http://x, and stays http://x
C10_Witness ==
  /\ upc = "twice"
  /\ url = Str_host \o Str_healthz
  /\ base1 = Str_host
  /\ base2 = Str_host

====
